---- MODULE Spec2Model ----
(***************************************************************************)
(* Migration state ledger and orchestration loop of                        *)
(* bitbucket-to-github-migrator.py, and the origin-rewrite planner and     *)
(* applier of origin_updater.py / update-git-origins.py.                   *)
(*                                                                         *)
(* Text values (workspace, slug, owner, name, URLs) are sequences of       *)
(* one-character strings, so that concatenation and parsing are computed.  *)
(* The empty string is << >>.  Status values are plain strings.            *)
(***************************************************************************)
EXTENDS Naturals, Integers, Sequences, FiniteSets, TLC

VARIABLES
    file,         \* contents of migration_state.json
    written,      \* TRUE once save_state has written the file
    pc,           \* position of main() of the migrator
    runs,         \* number of runs of main() started so far
    plans,        \* List[RepoPlan] of the current run
    idx,          \* loop index of "for idx, plan in enumerate(plans, start=1)"
    edits,        \* number of edit commands accepted by edit_plans in this run
    premerge,     \* plans as they were when apply_existing_state was entered
    everDone,     \* keys the ledger recorded as done when some run so far started
    created,      \* keys for which create_github_repo was invoked in this run
    mirrored,     \* keys for which mirror_repo was invoked in this run
    attempted,    \* plan indices set to in_progress in this run
    failed,       \* plan indices whose try block raised in this run
    dest,         \* what main() has learnt about the GitHub destination of
                  \* the plan under way, and the operator's answer about it
    declined,     \* plan indices for which "Push mirror anyway?" was declined
    interrupted,  \* <<key, run, resumed>>: run was interrupted while the
                  \* repository was being created or mirrored; resumed is the
                  \* later run that set it to in_progress again, 0 if none yet
    uprog,        \* which program runs the origin update: "migrator" or "standalone"
    upc,          \* position of the origin update
    repos,        \* git configuration of each local repository (remote "origin")
    ustate,       \* the ledger handed to build_updates
    uowner,       \* default_owner handed to build_updates
    updates,      \* List[RepoUpdate] returned by build_updates
    uidx,         \* loop index of apply_updates
    conflicts,    \* the list apply_updates collects and returns
    planned,      \* git configuration when build_updates ran
    gitlog,       \* the set-url commands apply_updates has run, in order
    answers,      \* what git answered to build_updates for each repository
    seterr,       \* TRUE once a set-url command of this apply_updates call failed
    upass,        \* number of the plan-and-apply pass under way
    first,        \* how the first plan-and-apply pass ended
    mmode,        \* what is called: run_git_with_retry alone, or mirror_repo
    mpc,          \* position inside mirror_repo / run_git_with_retry
    lfs_migrate,  \* the lfs_migrate argument of mirror_repo
    command,      \* the command run_git_with_retry was called with
    retries,      \* the retries argument of run_git_with_retry
    attempt,      \* loop variable of run_git_with_retry
    last_error,   \* last_error of run_git_with_retry: 0 for None, else the
                  \* number of the invocation whose RuntimeError it holds
    raised,       \* the error that left the call: 0 for none, else the number
                  \* of the invocation (of the command) that raised it
    calls,        \* per command, how many times git was invoked
    sleeps,       \* per command, how many times time.sleep was called
    succeeded,    \* the commands of which an invocation exited with status 0
    returned,     \* the commands whose run_git_with_retry call returned normally
    mstatus,      \* plan.status of the repository mirror_repo is called for
    purl,         \* the origin handed to parse_bitbucket_origin
    presult       \* whether parse_bitbucket_origin was called, and what it returned

migVars == <<written, pc, runs, plans, idx, edits, premerge,
             everDone, created, mirrored, attempted, failed,
             dest, declined, interrupted>>

updVars == <<uprog, upc, repos, ustate, uowner, updates, uidx, conflicts,
             planned, gitlog, answers, seterr, upass, first>>

mirVars == <<mmode, mpc, lfs_migrate, command, retries, attempt, last_error,
             raised, calls, sleeps, succeeded, returned, mstatus>>

parseVars == <<purl, presult>>

libVars == <<mirVars, parseVars>>

vars == <<file, migVars, updVars, libVars>>

----------------------------------------------------------------------------
(* Bounds of the model *)

\* number of runs of main() explored
MaxRuns == 2
\* number of edit commands the operator enters in edit_plans per run
MaxEdits == 1
\* number of plan-and-apply passes of the origin update explored
MaxPasses == 2
\* largest retries argument run_git_with_retry is called with on its own
MaxRetries == 4

----------------------------------------------------------------------------
(* Text helpers *)

Slash == <<"/">>

\* Python truthiness of a string: "if existing_owner", "if value"
Truthy(s) == s # << >>

\* s[n:]
Drop(s, n) == SubSeq(s, n + 1, Len(s))

\* s.startswith(p)
StartsWith(s, p) == Len(s) >= Len(p) /\ SubSeq(s, 1, Len(p)) = p

\* s.endswith(p)
EndsWith(s, p) == Len(s) >= Len(p) /\ SubSeq(s, Len(s) - Len(p) + 1, Len(s)) = p

\* c in s
HasChar(s, c) == \E i \in 1..Len(s) : s[i] = c

\* s.find(c) + 1: the first position of c in s, 0 when there is none
IndexOf(s, c) ==
    IF HasChar(s, c)
    THEN CHOOSE i \in 1..Len(s) : s[i] = c /\ \A j \in 1..(i - 1) : s[j] # c
    ELSE 0

\* dict.get(field, default)
Get(d, field, default) == IF field \in DOMAIN d THEN d[field] ELSE default

----------------------------------------------------------------------------
(* Source repositories (BitbucketRepo), sorted by (workspace, slug) as in    *)
(* main(): all_repos.sort(key=lambda r: (r.workspace, r.slug))               *)

all_repos ==
    << [workspace |-> <<"w">>, slug |-> <<"a">>],
       [workspace |-> <<"w">>, slug |-> <<"b">>] >>

\* source_key(repo) = f"{repo.workspace}/{repo.slug}"
source_key(repo) == repo.workspace \o Slash \o repo.slug

AllKeys == {source_key(all_repos[i]) : i \in DOMAIN all_repos}

\* values the operator or the environment can supply for owner and name
DefaultOwners == {<<"o">>}
EditOwners == {<<"e">>}
EditNames == {<<"m">>}

----------------------------------------------------------------------------
(* The ledger file.  kind is "absent" (no file), "unreadable" (not JSON),    *)
(* "notdict" (JSON, but not an object) or "dict".  For a dict, data maps     *)
(* each key to a JSON value: isdict says whether it is an object, fields     *)
(* holds the object's members.                                               *)

NoData == << >>

AbsentFile == [kind |-> "absent", data |-> NoData]
UnreadableFile == [kind |-> "unreadable", data |-> NoData]
NotDictFile == [kind |-> "notdict", data |-> NoData]

DictValue(fields) == [isdict |-> TRUE, fields |-> fields]
ScalarValue == [isdict |-> FALSE, fields |-> NoData]

\* ledger entries a state file found on disk may hold for a key
InitValues ==
    { ScalarValue,
      DictValue([status |-> "done"]),
      DictValue([status |-> "done", target_owner |-> << >>, target_name |-> <<"n">>]),
      DictValue([status |-> "done", target_owner |-> <<"p">>, target_name |-> <<"n">>]),
      DictValue([status |-> "in_progress", target_owner |-> <<"p">>, target_name |-> <<"n">>]),
      DictValue([target_owner |-> <<"p">>, target_name |-> << >>]) }

InitFiles ==
    {AbsentFile, UnreadableFile, NotDictFile}
    \cup { [kind |-> "dict", data |-> d] :
             d \in UNION { [S -> InitValues] : S \in SUBSET AllKeys } }

\* load_state() of the migrator: every failure is caught and gives {}
LoadEntries(f) ==
    [ k \in {x \in DOMAIN f.data : f.data[x].isdict} |->
        [ status |-> Get(f.data[k].fields, "status", "pending"),
          target_owner |-> Get(f.data[k].fields, "target_owner", << >>),
          target_name |-> Get(f.data[k].fields, "target_name", << >>) ] ]

load_state(f) ==
    IF f.kind = "dict" THEN LoadEntries(f) ELSE NoData

\* save_state(plans): the file is rewritten from the plans of this run alone
save_state(ps) ==
    [ kind |-> "dict",
      data |-> [ k \in {source_key(ps[i].source) : i \in DOMAIN ps} |->
                 LET i == CHOOSE j \in DOMAIN ps :
                            /\ source_key(ps[j].source) = k
                            /\ \A h \in DOMAIN ps :
                                 source_key(ps[h].source) = k => h <= j
                 IN DictValue([ status |-> ps[i].status,
                                target_owner |-> ps[i].target_owner,
                                target_name |-> ps[i].target_name ]) ] ]

\* apply_existing_state as it would be if the ledger's target fields were
\* copied without the "if existing_owner and existing_name" test
MergePlanAlways(plan, state) ==
    LET key == source_key(plan.source) IN
    IF key \in DOMAIN state
    THEN [plan EXCEPT !.status = state[key].status,
                      !.target_owner = state[key].target_owner,
                      !.target_name = state[key].target_name]
    ELSE plan

\* apply_existing_state as it would be with "or" in place of "and"
MergePlanEither(plan, state) ==
    LET key == source_key(plan.source) IN
    IF key \in DOMAIN state
    THEN LET withStatus == [plan EXCEPT !.status = state[key].status]
         IN IF Truthy(state[key].target_owner) \/ Truthy(state[key].target_name)
            THEN [withStatus EXCEPT !.target_owner = state[key].target_owner,
                                    !.target_name = state[key].target_name]
            ELSE withStatus
    ELSE plan

\* one iteration of the loop of apply_existing_state
MergePlan(plan, state) ==
    LET key == source_key(plan.source) IN
    IF key \in DOMAIN state
    THEN LET existing_owner == state[key].target_owner
             existing_name == state[key].target_name
             withStatus == [plan EXCEPT !.status = state[key].status]
         IN IF Truthy(existing_owner) /\ Truthy(existing_name)
            THEN [withStatus EXCEPT !.target_owner = existing_owner,
                                    !.target_name = existing_name]
            ELSE withStatus
    ELSE plan

\* apply_existing_state(plans), given the state it loaded
apply_existing_state(ps, state) ==
    IF state = NoData THEN ps
    ELSE [ i \in DOMAIN ps |-> MergePlan(ps[i], state) ]

\* keys the persisted ledger records as done
DoneKeys(f) == {k \in DOMAIN load_state(f) : load_state(f)[k].status = "done"}

\* keys present in the persisted ledger
FileKeys(f) == DOMAIN f.data

----------------------------------------------------------------------------
(* main() of the migrator *)

\* pick_repos returns [selected[i] for i in sorted(selected)], never empty
SelectedRepos(S) ==
    [ j \in 1..Cardinality(S) |->
        all_repos[CHOOSE i \in S : Cardinality({h \in S : h <= i}) = j] ]

\* main(): plans.append(RepoPlan(source=repo, target_owner=default_owner,
\*                               target_name=repo.slug))  with status "pending"
DefaultPlan(repo, default_owner) ==
    [ source |-> repo, target_owner |-> default_owner,
      target_name |-> repo.slug, status |-> "pending" ]

\* no origin update is under way
UpdIdle ==
    /\ uprog = "none"
    /\ upc = "off"
    /\ repos = << >>
    /\ ustate = NoData
    /\ uowner = << >>
    /\ updates = << >>
    /\ uidx = 0
    /\ conflicts = << >>
    /\ planned = << >>
    /\ gitlog = << >>
    /\ answers = << >>
    /\ seterr = FALSE
    /\ upass = 0
    /\ first = << >>

\* no migration run is under way and none has been started
MigIdle ==
    /\ written = FALSE
    /\ pc = "idle"
    /\ runs = 0
    /\ plans = << >>
    /\ idx = 0
    /\ edits = 0
    /\ premerge = << >>
    /\ everDone = {}
    /\ created = {}
    /\ mirrored = {}
    /\ attempted = {}
    /\ failed = {}
    /\ dest = "none"
    /\ declined = {}
    /\ interrupted = {}

\* the git commands mirror_repo and run_git_with_retry may be called with
Commands == {"cmd", "clone", "set_url", "lfs_install", "lfs_migrate", "push"}

\* neither mirror_repo nor run_git_with_retry has been called
MirIdle ==
    /\ mmode = "off"
    /\ mpc = "off"
    /\ lfs_migrate = FALSE
    /\ command = "none"
    /\ retries = 0
    /\ attempt = 0
    /\ last_error = 0
    /\ raised = 0
    /\ calls = [c \in Commands |-> 0]
    /\ sleeps = [c \in Commands |-> 0]
    /\ succeeded = {}
    /\ returned = {}
    /\ mstatus = "none"

\* parse_bitbucket_origin has not been called
ParseIdle ==
    /\ purl = << >>
    /\ presult = [called |-> FALSE, value |-> << >>]

Init ==
    /\ file \in InitFiles
    /\ MigIdle
    /\ UpdIdle
    /\ MirIdle
    /\ ParseIdle

\* main() from its start to the call of edit_plans: the setup succeeds, the
\* operator selects a non-empty set of repositories, the default plans are built
StartRun ==
    /\ UNCHANGED <<updVars, libVars>>
    /\ dest' = "none"
    /\ declined' = {}
    /\ UNCHANGED interrupted
    /\ pc = "idle"
    /\ runs < MaxRuns
    /\ \E S \in (SUBSET DOMAIN all_repos) \ {{}} : \E default_owner \in DefaultOwners :
         plans' = [ j \in DOMAIN SelectedRepos(S) |->
                      DefaultPlan(SelectedRepos(S)[j], default_owner) ]
    /\ runs' = runs + 1
    /\ pc' = "edit"
    /\ idx' = 0
    /\ edits' = 0
    /\ premerge' = << >>
    /\ everDone' = everDone \cup DoneKeys(file)
    /\ created' = {}
    /\ mirrored' = {}
    /\ attempted' = {}
    /\ failed' = {}
    /\ UNCHANGED <<file, written>>

\* main() ends in its setup: no workspaces, no repositories, or git-lfs missing
SetupFails ==
    /\ UNCHANGED <<updVars, libVars>>
    /\ UNCHANGED <<dest, declined, interrupted>>
    /\ pc = "idle"
    /\ runs < MaxRuns
    /\ runs' = runs + 1
    /\ UNCHANGED <<file, written, pc, plans, idx, edits, premerge,
                   everDone, created, mirrored, attempted, failed>>

\* edit_plans: "<index> <new_repo_name>" keeps the owner
EditName(ps, i, name) == [ps EXCEPT ![i].target_name = name]

\* edit_plans: "<index> <owner>/<new_repo_name>", refused when a part is empty
EditOwnerName(ps, i, owner, name) ==
    IF ~Truthy(owner) \/ ~Truthy(name) THEN ps
    ELSE [ps EXCEPT ![i].target_owner = owner, ![i].target_name = name]

EditPlans ==
    /\ UNCHANGED <<updVars, libVars>>
    /\ UNCHANGED <<dest, declined, interrupted>>
    /\ pc = "edit"
    /\ edits < MaxEdits
    /\ \E i \in DOMAIN plans :
         \/ \E name \in EditNames : plans' = EditName(plans, i, name)
         \/ \E owner \in EditOwners \cup {<< >>} : \E name \in EditNames :
              plans' = EditOwnerName(plans, i, owner, name)
    /\ edits' = edits + 1
    /\ UNCHANGED <<file, written, pc, runs, idx, premerge, everDone,
                   created, mirrored, attempted, failed>>

\* edit_plans returns on "done"
EditDone ==
    /\ UNCHANGED <<updVars, libVars>>
    /\ UNCHANGED <<dest, declined, interrupted>>
    /\ pc = "edit"
    /\ pc' = "merge"
    /\ UNCHANGED <<file, written, runs, plans, idx, edits, premerge,
                   everDone, created, mirrored, attempted, failed>>

\* plans = apply_existing_state(plans)
ApplyExistingState ==
    /\ UNCHANGED <<updVars, libVars>>
    /\ UNCHANGED <<dest, declined, interrupted>>
    /\ pc = "merge"
    /\ premerge' = plans
    /\ plans' = apply_existing_state(plans, load_state(file))
    /\ pc' = "recap"
    /\ UNCHANGED <<file, written, runs, idx, edits, everDone, created,
                   mirrored, attempted, failed>>

\* dry run, or the operator declines "Proceed with mirroring?"
NoMirroring ==
    /\ UNCHANGED <<updVars, libVars>>
    /\ UNCHANGED <<dest, declined, interrupted>>
    /\ pc = "recap"
    /\ pc' = "idle"
    /\ UNCHANGED <<file, written, runs, plans, idx, edits, premerge,
                   everDone, created, mirrored, attempted, failed>>

Proceed ==
    /\ UNCHANGED <<updVars, libVars>>
    /\ UNCHANGED <<dest, declined, interrupted>>
    /\ pc = "recap"
    /\ pc' = "loop"
    /\ idx' = 1
    /\ UNCHANGED <<file, written, runs, plans, edits, premerge,
                   everDone, created, mirrored, attempted, failed>>

\* loop head with the plans exhausted: the report is written and main() ends
\* (the optional origin update that follows is the planner/applier below)
LoopEnd ==
    /\ UNCHANGED <<updVars, libVars>>
    /\ UNCHANGED <<dest, declined, interrupted>>
    /\ pc = "loop"
    /\ idx \notin DOMAIN plans
    /\ pc' = "finished"
    /\ UNCHANGED <<file, written, runs, plans, idx, edits, premerge,
                   everDone, created, mirrored, attempted, failed>>

Finish ==
    /\ UNCHANGED <<updVars, libVars>>
    /\ UNCHANGED <<dest, declined, interrupted>>
    /\ pc = "finished"
    /\ pc' = "idle"
    /\ UNCHANGED <<file, written, runs, plans, idx, edits, premerge,
                   everDone, created, mirrored, attempted, failed>>

\* the skip as it would be if in_progress were taken for migrated as well
SkipDoneOrInProgress ==
    /\ UNCHANGED <<updVars, libVars>>
    /\ UNCHANGED <<dest, declined, interrupted>>
    /\ pc = "loop"
    /\ idx \in DOMAIN plans
    /\ plans[idx].status \in {"done", "in_progress"}
    /\ idx' = idx + 1
    /\ UNCHANGED <<file, written, pc, runs, plans, edits, premerge,
                   everDone, created, mirrored, attempted, failed>>

\* the skip as it would be if it saved the ledger before going on
SkipDoneSaves ==
    /\ UNCHANGED <<updVars, libVars>>
    /\ UNCHANGED <<dest, declined, interrupted>>
    /\ pc = "loop"
    /\ idx \in DOMAIN plans
    /\ plans[idx].status = "done"
    /\ file' = save_state(plans)
    /\ written' = TRUE
    /\ idx' = idx + 1
    /\ UNCHANGED <<pc, runs, plans, edits, premerge,
                   everDone, created, mirrored, attempted, failed>>

\* if plan.status == "done": ... continue
SkipDone ==
    /\ UNCHANGED <<updVars, libVars>>
    /\ UNCHANGED <<dest, declined, interrupted>>
    /\ pc = "loop"
    /\ idx \in DOMAIN plans
    /\ plans[idx].status = "done"
    /\ idx' = idx + 1
    /\ UNCHANGED <<file, written, pc, runs, plans, edits, premerge,
                   everDone, created, mirrored, attempted, failed>>

\* plan.status = "in_progress"
MarkInProgress ==
    /\ UNCHANGED <<updVars, libVars>>
    /\ pc = "loop"
    /\ idx \in DOMAIN plans
    /\ plans[idx].status # "done"
    /\ interrupted' =
         { IF e[1] = source_key(plans[idx].source) /\ e[3] = 0
           THEN <<e[1], e[2], runs>> ELSE e : e \in interrupted }
    /\ UNCHANGED <<dest, declined>>
    /\ plans' = [plans EXCEPT ![idx].status = "in_progress"]
    /\ attempted' = attempted \cup {idx}
    /\ pc' = "save_in_progress"
    /\ UNCHANGED <<file, written, runs, idx, edits, premerge,
                   everDone, created, mirrored, failed>>

\* the loop as it would be without the save_state call before the try block
SaveInProgressSkipped ==
    /\ UNCHANGED <<updVars, libVars>>
    /\ UNCHANGED <<dest, declined, interrupted>>
    /\ pc = "save_in_progress"
    /\ pc' = "create"
    /\ UNCHANGED <<file, written, runs, plans, idx, edits, premerge,
                   everDone, created, mirrored, attempted, failed>>

\* save_state(plans) before the try block
SaveInProgress ==
    /\ UNCHANGED <<updVars, libVars>>
    /\ UNCHANGED <<dest, declined, interrupted>>
    /\ pc = "save_in_progress"
    /\ file' = save_state(plans)
    /\ written' = TRUE
    /\ pc' = "create"
    /\ UNCHANGED <<runs, plans, idx, edits, premerge,
                   everDone, created, mirrored, attempted, failed>>

\* create_github_repo: (True, "created"), (False, "exists") or an exception
CreateGithubRepo ==
    /\ UNCHANGED <<updVars, libVars>>
    /\ UNCHANGED <<declined, interrupted>>
    /\ pc = "create"
    /\ created' = created \cup {source_key(plans[idx].source)}
    /\ \E outcome \in {"created", "exists", "raise"} :
         /\ pc' = CASE outcome = "created" -> "mirror"
                    [] outcome = "exists" -> "info"
                    [] outcome = "raise" -> "except"
         /\ dest' = IF outcome = "raise" THEN dest ELSE outcome
    /\ UNCHANGED <<file, written, runs, plans, idx, edits, premerge,
                   everDone, mirrored, attempted, failed>>

\* fetch_github_repo_info and is_empty: empty, not empty, or an exception
FetchGithubRepoInfo ==
    /\ UNCHANGED <<updVars, libVars>>
    /\ UNCHANGED <<declined, interrupted>>
    /\ pc = "info"
    /\ \E outcome \in {"empty", "nonempty", "raise"} :
         /\ pc' = CASE outcome = "empty" -> "mirror"
                    [] outcome = "nonempty" -> "ask"
                    [] outcome = "raise" -> "except"
         /\ dest' = IF outcome = "raise" THEN dest ELSE outcome
    /\ UNCHANGED <<file, written, runs, plans, idx, edits, premerge,
                   everDone, created, mirrored, attempted, failed>>

\* the prompt as it would be if the answer were not looked at
AskPushAnywayIgnored ==
    /\ UNCHANGED <<updVars, libVars>>
    /\ UNCHANGED interrupted
    /\ pc = "ask"
    /\ \E proceed \in BOOLEAN :
         /\ dest' = IF proceed THEN "confirmed" ELSE "declined"
         /\ declined' = IF proceed THEN declined ELSE declined \cup {idx}
    /\ pc' = "mirror"
    /\ UNCHANGED <<file, written, runs, plans, idx, edits, premerge,
                   everDone, created, mirrored, attempted, failed>>

\* prompt_yes_no("... is not empty. Push mirror anyway?"): on no, the plan
\* goes back to pending
AskPushAnyway ==
    /\ UNCHANGED <<updVars, libVars>>
    /\ UNCHANGED interrupted
    /\ pc = "ask"
    /\ \E proceed \in BOOLEAN :
         IF proceed
         THEN /\ pc' = "mirror"
              /\ dest' = "confirmed"
              /\ UNCHANGED <<plans, declined>>
         ELSE /\ plans' = [plans EXCEPT ![idx].status = "pending"]
              /\ dest' = "declined"
              /\ declined' = declined \cup {idx}
              /\ pc' = "save_result"
    /\ UNCHANGED <<file, written, runs, idx, edits, premerge,
                   everDone, created, mirrored, attempted, failed>>

\* mirror_repo returns (plan.status = "done") or raises
MirrorRepo ==
    /\ UNCHANGED <<updVars, libVars>>
    /\ UNCHANGED <<dest, declined, interrupted>>
    /\ pc = "mirror"
    /\ mirrored' = mirrored \cup {source_key(plans[idx].source)}
    /\ \E ok \in BOOLEAN :
         IF ok
         THEN /\ plans' = [plans EXCEPT ![idx].status = "done"]
              /\ pc' = "save_result"
         ELSE /\ pc' = "except"
              /\ UNCHANGED plans
    /\ UNCHANGED <<file, written, runs, idx, edits, premerge,
                   everDone, created, attempted, failed>>

\* the except block as it would be without plan.status = "pending"
OnErrorKeepsStatus(ps, i) == ps

\* except Exception: plan.status = "pending"
OnError(ps, i) == [ps EXCEPT ![i].status = "pending"]

HandleException ==
    /\ UNCHANGED <<updVars, libVars>>
    /\ UNCHANGED <<dest, declined, interrupted>>
    /\ pc = "except"
    /\ plans' = OnError(plans, idx)
    /\ failed' = failed \cup {idx}
    /\ pc' = "save_result"
    /\ UNCHANGED <<file, written, runs, idx, edits, premerge,
                   everDone, created, mirrored, attempted>>

\* the loop as it would be without the save_state call after the status was
\* set to done or to pending
SaveResultSkipped ==
    /\ UNCHANGED <<updVars, libVars>>
    /\ dest' = "none"
    /\ UNCHANGED <<declined, interrupted>>
    /\ pc = "save_result"
    /\ idx' = idx + 1
    /\ pc' = "loop"
    /\ UNCHANGED <<file, written, runs, plans, edits, premerge,
                   everDone, created, mirrored, attempted, failed>>

\* save_state(plans) after the status was set to done or to pending; the loop
\* goes on with the next plan
SaveResult ==
    /\ UNCHANGED <<updVars, libVars>>
    /\ dest' = "none"
    /\ UNCHANGED <<declined, interrupted>>
    /\ pc = "save_result"
    /\ file' = save_state(plans)
    /\ written' = TRUE
    /\ idx' = idx + 1
    /\ pc' = "loop"
    /\ UNCHANGED <<runs, plans, edits, premerge,
                   everDone, created, mirrored, attempted, failed>>

\* the process is interrupted (KeyboardInterrupt, kill) during a run
Interrupt ==
    /\ UNCHANGED <<updVars, libVars>>
    /\ interrupted' = IF pc \in {"create", "info", "ask", "mirror"}
                      THEN interrupted \cup {<<source_key(plans[idx].source), runs, 0>>}
                      ELSE interrupted
    /\ dest' = "none"
    /\ UNCHANGED declined
    /\ pc \notin {"idle", "finished"}
    /\ pc' = "idle"
    /\ UNCHANGED <<file, written, runs, plans, idx, edits, premerge,
                   everDone, created, mirrored, attempted, failed>>

Next ==
    \/ StartRun
    \/ SetupFails
    \/ EditPlans
    \/ EditDone
    \/ ApplyExistingState
    \/ NoMirroring
    \/ Proceed
    \/ LoopEnd
    \/ Finish
    \/ SkipDone
    \/ MarkInProgress
    \/ SaveInProgress
    \/ CreateGithubRepo
    \/ FetchGithubRepoInfo
    \/ AskPushAnyway
    \/ MirrorRepo
    \/ HandleException
    \/ SaveResult
    \/ Interrupt

Spec == Init /\ [][Next]_vars

----------------------------------------------------------------------------
(* origin_updater.py: the Origin Parser *)

HttpsScheme == <<"h", "t", "t", "p", "s", ":", "/", "/">>
BitbucketHost == <<"b", "i", "t", "b", "u", "c", "k", "e", "t", ".", "o", "r", "g">>
SshBitbucket == <<"g", "i", "t", "@">> \o BitbucketHost \o <<":">>
GithubHost == <<"g", "i", "t", "h", "u", "b", ".", "c", "o", "m">>
GithubSsh == <<"g", "i", "t", "@">> \o GithubHost \o <<":">>
DotGit == <<".", "g", "i", "t">>

\* parse_bitbucket_origin returns None
NoMatch == [matched |-> FALSE, workspace |-> << >>, repo |-> << >>]

\* the tail of both patterns as it would be if (\.git)? were not there: the
\* repo group takes the whole last segment
MatchPathKeepsGit(path) ==
    LET q == IndexOf(path, "/")
        tail == Drop(path, q)
    IN IF q <= 1 \/ tail = << >> \/ HasChar(tail, "/")
       THEN NoMatch
       ELSE [ matched |-> TRUE, workspace |-> SubSeq(path, 1, q - 1),
              repo |-> tail ]

\* the tail of both patterns, ([^/]+)/([^/]+?)(\.git)?$ : the workspace runs to
\* the first "/", the rest holds no "/", and the lazy repo group leaves a
\* final ".git" to the optional group whenever something is left for itself;
\* "$" also matches just before a newline that ends the string
MatchPath(path) ==
    LET q == IndexOf(path, "/")
        last == Drop(path, q)
        tail == IF Len(last) > 1 /\ last[Len(last)] = "\n"
                THEN SubSeq(last, 1, Len(last) - 1)
                ELSE last
    IN IF q <= 1 \/ tail = << >> \/ HasChar(tail, "/")
       THEN NoMatch
       ELSE [ matched |-> TRUE,
              workspace |-> SubSeq(path, 1, q - 1),
              repo |-> IF Len(tail) > Len(DotGit) /\ EndsWith(tail, DotGit)
                       THEN SubSeq(tail, 1, Len(tail) - Len(DotGit))
                       ELSE tail ]

\* re.match(r"https://([^@]+@)?bitbucket\.org/([^/]+)/([^/]+?)(\.git)?$", origin):
\* the credentials group is tried first, then the match without it
MatchHttps(origin) ==
    IF ~StartsWith(origin, HttpsScheme)
    THEN NoMatch
    ELSE LET rest == Drop(origin, Len(HttpsScheme))
             hostSlash == BitbucketHost \o Slash
             at == IndexOf(rest, "@")
             afterCred == Drop(rest, at)
             withCred == IF at > 1 /\ StartsWith(afterCred, hostSlash)
                         THEN MatchPath(Drop(afterCred, Len(hostSlash)))
                         ELSE NoMatch
             without == IF StartsWith(rest, hostSlash)
                        THEN MatchPath(Drop(rest, Len(hostSlash)))
                        ELSE NoMatch
         IN IF withCred.matched THEN withCred ELSE without

\* the SSH pattern as it would be if it accepted the GitHub host as well
MatchSshAnyHost(origin) ==
    IF StartsWith(origin, SshBitbucket)
    THEN MatchPath(Drop(origin, Len(SshBitbucket)))
    ELSE IF StartsWith(origin, GithubSsh)
         THEN MatchPath(Drop(origin, Len(GithubSsh)))
         ELSE NoMatch

\* re.match(r"git@bitbucket\.org:([^/]+)/([^/]+?)(\.git)?$", origin)
MatchSsh(origin) ==
    IF StartsWith(origin, SshBitbucket)
    THEN MatchPath(Drop(origin, Len(SshBitbucket)))
    ELSE NoMatch

parse_bitbucket_origin(origin) ==
    IF MatchHttps(origin).matched THEN MatchHttps(origin) ELSE MatchSsh(origin)

----------------------------------------------------------------------------
(* parse_bitbucket_origin applied to origin URLs *)

\* workspaces, repository slugs and credentials the URLs are built from
TestWorkspaces == {<<"w">>, <<"t", "1">>}
TestSlugs == {<<"a">>, <<"a", ".", "b">>, <<".", "g", "i", "t">>, <<"a", ".", "g", "i">>}
TestCredentials == {<<"u">>, <<"u", ":", "p">>}

\* a slug that ends in ".git": in a URL it is told from the suffix only when
\* the suffix follows it
SlugDotGit == <<"a", ".", "g", "i", "t">>

\* https://[credentials@]bitbucket.org/ and git@bitbucket.org:
BitbucketPrefixes ==
    {HttpsScheme \o BitbucketHost \o Slash, SshBitbucket}
    \cup {HttpsScheme \o c \o <<"@">> \o BitbucketHost \o Slash : c \in TestCredentials}

\* <prefix><workspace>/<slug>
BareUrl(prefix, workspace, slug) == prefix \o workspace \o Slash \o slug

\* <prefix><workspace>/<slug>.git
SuffixedUrl(prefix, workspace, slug) == BareUrl(prefix, workspace, slug) \o DotGit

\* the URLs of the two Bitbucket forms
FormUrls ==
    {BareUrl(x, w, r) : x \in BitbucketPrefixes, w \in TestWorkspaces, r \in TestSlugs}
    \cup {SuffixedUrl(x, w, r) : x \in BitbucketPrefixes, w \in TestWorkspaces,
                                 r \in TestSlugs \cup {SlugDotGit}}

\* URLs of no Bitbucket form: another host or scheme, a path segment missing
\* or empty, path segments in excess, credentials that are empty or hold "@"
OtherUrls ==
    {BareUrl(x, w, r) : x \in {HttpsScheme \o GithubHost \o Slash, GithubSsh,
                               <<"h", "t", "t", "p", ":", "/", "/", "b", "i", "t", "b", "u", "c", "k", "e", "t", ".", "o", "r", "g", "/">>,
                               <<"h", "t", "t", "p", "s", ":", "/", "/", "w", "w", "w", ".", "b", "i", "t", "b", "u", "c", "k", "e", "t", ".", "o", "r", "g", "/">>,
                               <<"h", "t", "t", "p", "s", ":", "/", "/", "b", "i", "t", "b", "u", "c", "k", "e", "t", ".", "c", "o", "m", "/">>,
                               <<"s", "s", "h", ":", "/", "/", "g", "i", "t", "@", "b", "i", "t", "b", "u", "c", "k", "e", "t", ".", "o", "r", "g", "/">>,
                               <<"h", "t", "t", "p", "s", ":", "/", "/", "@", "b", "i", "t", "b", "u", "c", "k", "e", "t", ".", "o", "r", "g", "/">>,
                               <<"h", "t", "t", "p", "s", ":", "/", "/", "u", "@", "v", "@", "b", "i", "t", "b", "u", "c", "k", "e", "t", ".", "o", "r", "g", "/">>},
                       w \in TestWorkspaces, r \in {<<"a">>, <<"a", ".", "g", "i", "t">>}}
    \cup {x \o w : x \in BitbucketPrefixes, w \in TestWorkspaces}
    \cup {x \o w \o Slash : x \in BitbucketPrefixes, w \in TestWorkspaces}
    \cup {x \o Slash \o <<"a">> : x \in BitbucketPrefixes}
    \cup {BareUrl(x, <<"w">>, <<"a">>) \o y : x \in BitbucketPrefixes,
                                      y \in {Slash, <<"/", "b">>, <<".", "g", "i", "t", "/">>}}
    \cup {<< >>}

\* strings git never hands over, origin being stripped: a URL and a newline
StrayInputs ==
    {BareUrl(x, <<"w">>, <<"a">>) \o <<"\n">> : x \in BitbucketPrefixes}

TestInputs == FormUrls \cup OtherUrls \cup StrayInputs

ParseInit ==
    /\ file = AbsentFile
    /\ MigIdle
    /\ UpdIdle
    /\ MirIdle
    /\ purl \in TestInputs
    /\ presult = [called |-> FALSE, value |-> << >>]

\* parsed = parse_bitbucket_origin(origin)
ParseOrigin ==
    /\ ~presult.called
    /\ presult' = [called |-> TRUE, value |-> parse_bitbucket_origin(purl)]
    /\ UNCHANGED <<file, migVars, updVars, mirVars, purl>>

ParseNext == ParseOrigin

SpecParse == ParseInit /\ [][ParseNext]_vars

----------------------------------------------------------------------------
(* origin_updater.py: local repositories and the git commands run on them *)

\* Optional[str] None, and a git command that exits non-zero
None == <<"None">>
GitFailed == <<"RuntimeError">>

\* remote URLs found in local repositories
UrlHttpsA == HttpsScheme \o BitbucketHost \o <<"/", "w", "/", "a">> \o DotGit
UrlHttpsCredA == HttpsScheme \o <<"u", "@">> \o BitbucketHost \o <<"/", "w", "/", "a">>
UrlSshB == SshBitbucket \o <<"w", "/", "b">> \o DotGit
UrlSshFork == SshBitbucket \o <<"f", "/", "b">> \o DotGit
UrlGithub == HttpsScheme \o GithubHost \o <<"/", "w", "/", "a">> \o DotGit

\* git configuration of a local repository: url is remote.origin.url (None when
\* there is no remote "origin"), pushurl is remote.origin.pushurl (None when unset)
RepoConfigs ==
    { [url |-> None, pushurl |-> None],
      [url |-> UrlHttpsA, pushurl |-> None],
      [url |-> UrlHttpsCredA, pushurl |-> UrlHttpsCredA],
      [url |-> UrlSshB, pushurl |-> UrlSshFork],
      [url |-> UrlGithub, pushurl |-> None] }

\* list_git_repos(root): the paths of the local repositories, in walk order
repo_paths == <<"/r1", "/r2">>

PathSet == {repo_paths[i] : i \in DOMAIN repo_paths}

\* git remote get-url origin
GetUrl(cfg) == IF cfg.url = None THEN GitFailed ELSE cfg.url

\* git remote get-url --push origin: the push URL, which is the fetch URL when
\* no pushurl is configured
GetPushUrl(cfg) == IF cfg.pushurl = None THEN cfg.url ELSE cfg.pushurl

\* git remote set-url origin <url>
SetUrl(cfg, url) == [cfg EXCEPT !.url = url]

\* git remote set-url --push origin <url>
SetPushUrl(cfg, url) == [cfg EXCEPT !.pushurl = url]

----------------------------------------------------------------------------
(* origin_updater.py: build_updates and apply_updates *)

\* build_updates as it would be if it took the ledger's target fields only when
\* both are non-empty, as apply_existing_state does
BuildUpdateBothOrNone(repo_path, origin, pushurl, state, default_owner) ==
    LET parsed == parse_bitbucket_origin(origin)
        key == parsed.workspace \o Slash \o parsed.repo
        inState == key \in DOMAIN state
        both == inState /\ Truthy(state[key].target_owner)
                        /\ Truthy(state[key].target_name)
        target_owner == IF both THEN state[key].target_owner ELSE default_owner
        target_name == IF both THEN state[key].target_name ELSE parsed.repo
    IN [ path |-> repo_path,
         current_origin |-> origin,
         current_pushurl |-> pushurl,
         source_key |-> key,
         target_owner |-> target_owner,
         target_name |-> target_name,
         new_origin |-> GithubSsh \o target_owner \o Slash \o target_name \o DotGit,
         from_state |-> inState,
         update_pushurl |-> (pushurl # None /\ pushurl = origin),
         pushurl_conflict |-> (pushurl # None /\ pushurl # origin) ]

\* the body of the loop of build_updates for a repository whose origin parsed;
\* pushurl is what run_git_optional returned
BuildUpdate(repo_path, origin, pushurl, state, default_owner) ==
    LET parsed == parse_bitbucket_origin(origin)
        workspace == parsed.workspace
        repo == parsed.repo
        key == workspace \o Slash \o repo
        inState == key \in DOMAIN state
        target_owner == IF inState /\ Truthy(state[key].target_owner)
                        THEN state[key].target_owner ELSE default_owner
        target_name == IF inState /\ Truthy(state[key].target_name)
                       THEN state[key].target_name ELSE repo
    IN [ path |-> repo_path,
         current_origin |-> origin,
         current_pushurl |-> pushurl,
         source_key |-> key,
         target_owner |-> target_owner,
         target_name |-> target_name,
         new_origin |-> GithubSsh \o target_owner \o Slash \o target_name \o DotGit,
         from_state |-> inState,
         update_pushurl |-> (pushurl # None /\ pushurl = origin),
         pushurl_conflict |-> (pushurl # None /\ pushurl # origin) ]

\* build_updates(repos, state, default_owner); git[path] holds what the two
\* git commands answer for the repository at path
RECURSIVE build_updates(_, _, _, _)
build_updates(paths, state, default_owner, git) ==
    IF paths = << >>
    THEN << >>
    ELSE LET repo_path == Head(paths)
             origin == git[repo_path].origin
             rest == build_updates(Tail(paths), state, default_owner, git)
         IN IF origin = GitFailed THEN rest
            ELSE IF ~parse_bitbucket_origin(origin).matched THEN rest
            ELSE <<BuildUpdate(repo_path, origin, git[repo_path].pushurl,
                               state, default_owner)>> \o rest

\* the answers of git for the repositories as configured; run_git_optional
\* gives None for the repositories in unread (non-zero exit or empty output)
GitAnswers(cfgs, unread) ==
    [ p \in DOMAIN cfgs |->
        [ origin |-> GetUrl(cfgs[p]),
          pushurl |-> IF p \in unread THEN None ELSE GetPushUrl(cfgs[p]) ] ]

\* apply_updates as it would be without the "if item.update_pushurl" test
ApplyOneAlwaysPush(cfg, item) ==
    SetPushUrl(SetUrl(cfg, item.new_origin), item.new_origin)

\* one iteration of apply_updates that raises nothing: the configuration after
ApplyOne(cfg, item) ==
    IF item.update_pushurl
    THEN SetPushUrl(SetUrl(cfg, item.new_origin), item.new_origin)
    ELSE SetUrl(cfg, item.new_origin)

\* the set-url commands of that iteration
CommandsOf(item) ==
    <<[path |-> item.path, push |-> FALSE, url |-> item.new_origin]>>
    \o (IF item.update_pushurl
        THEN <<[path |-> item.path, push |-> TRUE, url |-> item.new_origin]>>
        ELSE << >>)

\* load_state(path) of update-git-origins.py: json.load is not guarded
load_state_standalone(f) ==
    IF f.kind = "unreadable"
    THEN [raised |-> TRUE, state |-> NoData]
    ELSE [ raised |-> FALSE,
           state |-> IF f.kind = "dict"
                     THEN [ k \in {x \in DOMAIN f.data : f.data[x].isdict} |->
                              [ status |-> Get(f.data[k].fields, "status", ""),
                                target_owner |-> Get(f.data[k].fields, "target_owner", << >>),
                                target_name |-> Get(f.data[k].fields, "target_name", << >>) ] ]
                     ELSE NoData ]

\* build_updates of update-git-origins.py as it would be if it did not look
\* the repository up in the ledger
BuildUpdateStandaloneNoState(repo_path, origin, pushurl, state, default_owner) ==
    LET parsed == parse_bitbucket_origin(origin)
        source_key_ == parsed.workspace \o Slash \o parsed.repo
    IN [ path |-> repo_path,
         current_origin |-> origin,
         current_pushurl |-> pushurl,
         source_key |-> source_key_,
         target_owner |-> default_owner,
         target_name |-> parsed.repo,
         new_origin |-> GithubSsh \o default_owner \o Slash \o parsed.repo \o DotGit,
         from_state |-> FALSE,
         update_pushurl |-> (pushurl # None /\ pushurl = origin),
         pushurl_conflict |-> (pushurl # None /\ pushurl # origin) ]

\* the body of the loop of build_updates of update-git-origins.py, from
\* "workspace, repo = parsed" to updates.append(RepoUpdate(...))
BuildUpdateStandalone(repo_path, origin, pushurl, state, default_owner) ==
    LET parsed == parse_bitbucket_origin(origin)
        source_key_ == parsed.workspace \o Slash \o parsed.repo
        from_state == source_key_ \in DOMAIN state
        target_owner == IF from_state /\ Truthy(state[source_key_].target_owner)
                        THEN state[source_key_].target_owner ELSE default_owner
        target_name == IF from_state /\ Truthy(state[source_key_].target_name)
                       THEN state[source_key_].target_name ELSE parsed.repo
        update_pushurl == IF pushurl # None THEN pushurl = origin ELSE FALSE
        pushurl_conflict == IF pushurl # None THEN pushurl # origin ELSE FALSE
    IN [ path |-> repo_path,
         current_origin |-> origin,
         current_pushurl |-> pushurl,
         source_key |-> source_key_,
         target_owner |-> target_owner,
         target_name |-> target_name,
         new_origin |-> GithubSsh \o target_owner \o Slash \o target_name \o DotGit,
         from_state |-> from_state,
         update_pushurl |-> update_pushurl,
         pushurl_conflict |-> pushurl_conflict ]

\* build_updates of update-git-origins.py: the push URL is read before the
\* origin is parsed
RECURSIVE build_updates_standalone(_, _, _, _)
build_updates_standalone(paths, state, default_owner, git) ==
    IF paths = << >>
    THEN << >>
    ELSE LET repo_path == Head(paths)
             origin == git[repo_path].origin
             rest == build_updates_standalone(Tail(paths), state, default_owner, git)
         IN IF origin = GitFailed
            THEN rest
            ELSE LET pushurl == git[repo_path].pushurl
                 IN IF parse_bitbucket_origin(origin).matched
                    THEN <<BuildUpdateStandalone(repo_path, origin, pushurl,
                                                 state, default_owner)>> \o rest
                    ELSE rest

\* one iteration of apply_updates of update-git-origins.py that raises
\* nothing: the configuration after, and the set-url commands run
ApplyOneStandalone(cfg, item) ==
    LET origin_set == SetUrl(cfg, item.new_origin)
    IN IF item.update_pushurl
       THEN SetPushUrl(origin_set, item.new_origin)
       ELSE origin_set

CommandsOfStandalone(item) ==
    IF item.update_pushurl
    THEN << [path |-> item.path, push |-> FALSE, url |-> item.new_origin],
            [path |-> item.path, push |-> TRUE, url |-> item.new_origin] >>
    ELSE << [path |-> item.path, push |-> FALSE, url |-> item.new_origin] >>

\* an origin update starts: from main() of update-git-origins.py, or from the
\* end of main() of the migrator ("Update local git origins now?")
UpdInit ==
    /\ file \in InitFiles
    /\ MigIdle
    /\ uprog \in {"migrator", "standalone"}
    /\ upc = "start"
    /\ repos \in [PathSet -> RepoConfigs]
    /\ ustate = NoData
    /\ uowner \in DefaultOwners
    /\ updates = << >>
    /\ uidx = 0
    /\ conflicts = << >>
    /\ planned = << >>
    /\ gitlog = << >>
    /\ answers = << >>
    /\ seterr = FALSE
    /\ upass = 1
    /\ first = << >>
    /\ MirIdle
    /\ ParseIdle

\* state = load_state(...)
UpdLoadState ==
    /\ upc = "start"
    /\ IF uprog = "standalone"
       THEN IF load_state_standalone(file).raised
            THEN /\ upc' = "load_error"
                 /\ UNCHANGED ustate
            ELSE /\ upc' = "loaded"
                 /\ ustate' = load_state_standalone(file).state
       ELSE /\ upc' = "loaded"
            /\ ustate' = load_state(file)
    /\ UNCHANGED <<file, migVars, libVars, uprog, repos, uowner, updates, uidx,
                   conflicts, planned, gitlog, answers, seterr, upass, first>>

\* updates = build_updates(list_git_repos(root), state, default_owner)
UpdBuild ==
    /\ upc = "loaded"
    /\ \E unread \in SUBSET PathSet :
         /\ answers' = GitAnswers(repos, unread)
         /\ updates' = IF uprog = "standalone"
                       THEN build_updates_standalone(repo_paths, ustate, uowner,
                                                     answers')
                       ELSE build_updates(repo_paths, ustate, uowner, answers')
    /\ planned' = repos
    /\ upc' = IF updates' = << >> THEN "nothing" ELSE "planned"
    /\ UNCHANGED <<file, migVars, libVars, uprog, repos, ustate, uowner, uidx,
                   conflicts, gitlog, seterr, upass, first>>

\* the operator declines "Apply these origin updates?"
UpdDecline ==
    /\ upc = "planned"
    /\ upc' = "declined"
    /\ UNCHANGED <<file, migVars, libVars, uprog, repos, ustate, uowner, updates, uidx,
                   conflicts, planned, gitlog, answers, seterr, upass, first>>

\* apply_updates is entered: conflicts = []
UpdApply ==
    /\ upc = "planned"
    /\ upc' = "applying"
    /\ uidx' = 1
    /\ conflicts' = << >>
    /\ UNCHANGED <<file, migVars, libVars, uprog, repos, ustate, uowner, updates,
                   planned, gitlog, answers, seterr, upass, first>>

\* one iteration of the loop of apply_updates; a set-url command that fails
\* raises RuntimeError out of apply_updates
ApplyUpdate ==
    /\ upc = "applying"
    /\ uidx \in DOMAIN updates
    /\ LET item == updates[uidx] IN
       \E outcome \in {"ok", "origin_fails", "push_fails"} :
          CASE outcome = "ok" ->
                 /\ repos' = [repos EXCEPT ![item.path] =
                                 IF uprog = "standalone"
                                 THEN ApplyOneStandalone(@, item)
                                 ELSE ApplyOne(@, item)]
                 /\ gitlog' = gitlog \o (IF uprog = "standalone"
                                          THEN CommandsOfStandalone(item)
                                          ELSE CommandsOf(item))
                 /\ conflicts' = IF item.pushurl_conflict
                                 THEN Append(conflicts, item) ELSE conflicts
                 /\ uidx' = uidx + 1
                 /\ UNCHANGED <<upc, seterr>>
            [] outcome = "origin_fails" ->
                 /\ upc' = "failed"
                 /\ seterr' = TRUE
                 /\ UNCHANGED <<repos, gitlog, conflicts, uidx>>
            [] outcome = "push_fails" ->
                 /\ item.update_pushurl
                 /\ repos' = [repos EXCEPT ![item.path] = SetUrl(@, item.new_origin)]
                 /\ gitlog' = Append(gitlog, [path |-> item.path, push |-> FALSE,
                                              url |-> item.new_origin])
                 /\ upc' = "failed"
                 /\ seterr' = TRUE
                 /\ UNCHANGED <<conflicts, uidx>>
    /\ UNCHANGED <<file, migVars, libVars, uprog, ustate, uowner, updates, planned,
                   answers, upass, first>>

\* return conflicts
ApplyReturn ==
    /\ upc = "applying"
    /\ uidx \notin DOMAIN updates
    /\ upc' = "applied"
    /\ UNCHANGED <<file, migVars, libVars, uprog, repos, ustate, uowner, updates, uidx,
                   conflicts, planned, gitlog, answers, seterr, upass, first>>

\* the operator runs the origin update again over the same repositories,
\* after a pass that applied its updates or that stopped on a git error
UpdRerun ==
    /\ upc \in {"applied", "failed"}
    /\ upass < MaxPasses
    /\ first' = IF upass = 1
                THEN [ upc |-> upc, updates |-> updates, planned |-> planned,
                       repos |-> repos, conflicts |-> conflicts ]
                ELSE first
    /\ upass' = upass + 1
    /\ upc' = "start"
    /\ ustate' = NoData
    /\ updates' = << >>
    /\ uidx' = 0
    /\ conflicts' = << >>
    /\ planned' = << >>
    /\ gitlog' = << >>
    /\ answers' = << >>
    /\ seterr' = FALSE
    /\ UNCHANGED <<file, migVars, libVars, uprog, repos, uowner>>

UpdNext ==
    \/ UpdLoadState
    \/ UpdBuild
    \/ UpdDecline
    \/ UpdApply
    \/ ApplyUpdate
    \/ ApplyReturn
    \/ UpdRerun

SpecUpd == UpdInit /\ [][UpdNext]_vars

----------------------------------------------------------------------------
(* run_git_with_retry and mirror_repo of the migrator *)

\* retries=3 in both calls of run_git_with_retry in mirror_repo
MirrorRetries == 3

\* what one invocation of git can do: exit 0, exit non-zero (run_git raises
\* RuntimeError), or not run at all (subprocess.run raises, e.g. OSError)
GitOutcomes == {"ok", "runtime_error", "os_error"}

\* either run_git_with_retry is about to be called on its own with some
\* retries >= 1, or main() is about to call mirror_repo for a repository whose
\* plan.status it has just set to "in_progress"
MirInit ==
    /\ file = AbsentFile
    /\ MigIdle
    /\ UpdIdle
    /\ ParseIdle
    /\ mmode \in {"retry", "mirror"}
    /\ mpc = "start"
    /\ lfs_migrate \in (IF mmode = "mirror" THEN BOOLEAN ELSE {FALSE})
    /\ command = "none"
    /\ retries \in (IF mmode = "retry" THEN 1..MaxRetries ELSE {0})
    /\ attempt = 0
    /\ last_error = 0
    /\ raised = 0
    /\ calls = [c \in Commands |-> 0]
    /\ sleeps = [c \in Commands |-> 0]
    /\ succeeded = {}
    /\ returned = {}
    /\ mstatus = IF mmode = "mirror" THEN "in_progress" ELSE "none"

\* where control goes when the git command of this step has succeeded
AfterCommand(c) ==
    CASE mmode = "retry" -> "returned"
      [] c = "clone" -> "set_url"
      [] c = "set_url" -> IF lfs_migrate THEN "lfs_install" ELSE "push"
      [] c = "lfs_install" -> "lfs_migrate"
      [] c = "lfs_migrate" -> "push"
      [] c = "push" -> "mirror_returned"

\* where control goes when an error leaves the step: out of
\* run_git_with_retry, and in mirror_repo out of mirror_repo too
AfterError == IF mmode = "retry" THEN "raised" ELSE "mirror_raised"

\* run_git_with_retry(command, retries=...) is entered:
\* last_error = None; for attempt in range(1, retries + 1)
EnterRetry(c, n) ==
    /\ command' = c
    /\ retries' = n
    /\ attempt' = 1
    /\ last_error' = 0
    /\ mpc' = "try"

\* run_git_with_retry is called on its own
CallRetry ==
    /\ mmode = "retry"
    /\ mpc = "start"
    /\ EnterRetry("cmd", retries)
    /\ UNCHANGED <<file, migVars, updVars, parseVars, mmode, lfs_migrate,
                   raised, calls, sleeps, succeeded, returned, mstatus>>

\* mirror_repo: run_git_with_retry(["git", "clone", "--mirror", ...], retries=3)
MirrorClone ==
    /\ mmode = "mirror"
    /\ mpc = "start"
    /\ EnterRetry("clone", MirrorRetries)
    /\ UNCHANGED <<file, migVars, updVars, parseVars, mmode, lfs_migrate,
                   raised, calls, sleeps, succeeded, returned, mstatus>>

\* run_git_with_retry as it would be without "if last_error: raise last_error"
RetryAttemptNoRaise ==
    /\ mpc = "try"
    /\ calls' = [calls EXCEPT ![command] = @ + 1]
    /\ \E outcome \in {"ok", "runtime_error"} :
         IF outcome = "ok"
         THEN /\ succeeded' = succeeded \cup {command}
              /\ returned' = returned \cup {command}
              /\ mpc' = AfterCommand(command)
              /\ UNCHANGED last_error
         ELSE /\ last_error' = calls'[command]
              /\ IF attempt >= retries
                 THEN /\ returned' = returned \cup {command}
                      /\ mpc' = AfterCommand(command)
                 ELSE /\ mpc' = "sleep"
                      /\ UNCHANGED returned
              /\ UNCHANGED succeeded
    /\ UNCHANGED <<file, migVars, updVars, parseVars, mmode, lfs_migrate,
                   command, retries, attempt, raised, sleeps, mstatus>>

\* one pass through the try block of run_git_with_retry: run_git(command);
\* return / except RuntimeError: last_error = exc; break when
\* attempt >= retries, then raise last_error
RetryAttempt ==
    /\ mpc = "try"
    /\ calls' = [calls EXCEPT ![command] = @ + 1]
    /\ \E outcome \in GitOutcomes :
         CASE outcome = "ok" ->
                /\ succeeded' = succeeded \cup {command}
                /\ returned' = returned \cup {command}
                /\ mpc' = AfterCommand(command)
                /\ UNCHANGED <<last_error, raised>>
           [] outcome = "runtime_error" ->
                /\ last_error' = calls'[command]
                /\ IF attempt >= retries
                   THEN /\ raised' = last_error'
                        /\ mpc' = AfterError
                   ELSE /\ mpc' = "sleep"
                        /\ UNCHANGED raised
                /\ UNCHANGED <<succeeded, returned>>
           [] outcome = "os_error" ->
                /\ raised' = calls'[command]
                /\ mpc' = AfterError
                /\ UNCHANGED <<last_error, succeeded, returned>>
    /\ UNCHANGED <<file, migVars, updVars, parseVars, mmode, lfs_migrate,
                   command, retries, attempt, sleeps, mstatus>>

\* print("Git failed ... Retrying"); time.sleep(delay_seconds); next attempt
RetrySleep ==
    /\ mpc = "sleep"
    /\ sleeps' = [sleeps EXCEPT ![command] = @ + 1]
    /\ attempt' = attempt + 1
    /\ mpc' = "try"
    /\ UNCHANGED <<file, migVars, updVars, parseVars, mmode, lfs_migrate,
                   command, retries, last_error, raised, calls, succeeded,
                   returned, mstatus>>

\* a step of mirror_repo that calls run_git directly: the command runs once
RunGitOnce(c) ==
    /\ mmode = "mirror"
    /\ mpc = c
    /\ command' = c
    /\ calls' = [calls EXCEPT ![c] = @ + 1]
    /\ \E outcome \in GitOutcomes :
         IF outcome = "ok"
         THEN /\ succeeded' = succeeded \cup {c}
              /\ mpc' = AfterCommand(c)
              /\ UNCHANGED raised
         ELSE /\ raised' = calls'[c]
              /\ mpc' = AfterError
              /\ UNCHANGED succeeded
    /\ UNCHANGED <<file, migVars, updVars, parseVars, mmode, lfs_migrate,
                   retries, attempt, last_error, sleeps, returned, mstatus>>

\* run_git(["git", "remote", "set-url", "origin", gh_url], cwd=tmpdir)
MirrorSetUrl == RunGitOnce("set_url")

\* if lfs_migrate: run_git(["git", "lfs", "install", "--local"], cwd=tmpdir)
MirrorLfsInstall == RunGitOnce("lfs_install")

\* run_git(["git", "lfs", "migrate", "import", "--everything", ...])
MirrorLfsMigrate == RunGitOnce("lfs_migrate")

\* run_git_with_retry(["git", "push", "--mirror"], cwd=tmpdir, retries=3)
MirrorPush ==
    /\ mmode = "mirror"
    /\ mpc = "push"
    /\ EnterRetry("push", MirrorRetries)
    /\ UNCHANGED <<file, migVars, updVars, parseVars, mmode, lfs_migrate,
                   raised, calls, sleeps, succeeded, returned, mstatus>>

\* main(): mirror_repo returned: print("Done."); plan.status = "done"
MirrorReturned ==
    /\ mpc = "mirror_returned"
    /\ mstatus' = "done"
    /\ mpc' = "ended"
    /\ UNCHANGED <<file, migVars, updVars, parseVars, mmode, lfs_migrate,
                   command, retries, attempt, last_error, raised, calls,
                   sleeps, succeeded, returned>>

\* main(): except Exception as exc: plan.status = "pending"
MirrorRaised ==
    /\ mpc = "mirror_raised"
    /\ mstatus' = "pending"
    /\ mpc' = "ended"
    /\ UNCHANGED <<file, migVars, updVars, parseVars, mmode, lfs_migrate,
                   command, retries, attempt, last_error, raised, calls,
                   sleeps, succeeded, returned>>

MirNext ==
    \/ CallRetry
    \/ MirrorClone
    \/ RetryAttempt
    \/ RetrySleep
    \/ MirrorSetUrl
    \/ MirrorLfsInstall
    \/ MirrorLfsMigrate
    \/ MirrorPush
    \/ MirrorReturned
    \/ MirrorRaised

SpecMirror == MirInit /\ [][MirNext]_vars

----------------------------------------------------------------------------
(* Properties of the migrator, checked under Spec *)

PlanKey(i) == source_key(plans[i].source)

\* status the persisted ledger holds for a key ("none" when it has no record)
PersistedStatus(k) ==
    IF k \in DOMAIN load_state(file) THEN load_state(file)[k].status ELSE "none"

InRun == pc \notin {"idle"}

\* C1: a ledger record is never deleted: every key present in the ledger after
\* a save_state call is still present after every later save_state call, also
\* when a later run selects other repositories.
C1_RecordNeverDeleted ==
    [][written => FileKeys(file) \subseteq FileKeys(file')]_vars

\* C2: done is terminal across runs: a repository the persisted ledger recorded
\* as done is skipped in every later run that selects it: create_github_repo
\* and mirror_repo are not invoked for it and its status stays done.
C2_DoneIsTerminal ==
    InRun =>
      \A i \in DOMAIN plans :
         PlanKey(i) \in everDone =>
            /\ PlanKey(i) \notin created \cup mirrored
            /\ pc \notin {"edit", "merge"} => plans[i].status = "done"

\* C3: every status transition of an in-flight repository is persisted at once:
\* at each call to an external collaborator the repository being processed is
\* in_progress in memory and in the persisted ledger, and the final status of
\* every repository processed earlier in the run is the persisted one.
C3_TransitionsPersisted ==
    /\ pc \in {"create", "info", "ask", "mirror"} =>
         /\ plans[idx].status = "in_progress"
         /\ PersistedStatus(PlanKey(idx)) = "in_progress"
    /\ InRun =>
         \A j \in attempted :
            j # idx =>
              /\ plans[j].status \in {"done", "pending"}
              /\ PersistedStatus(PlanKey(j)) = plans[j].status

C3_Witness ==
    /\ pc = "mirror"
    /\ idx = 2
    /\ 1 \in attempted
    /\ plans[1].status = "done"

\* C4: a failure of one repository sets its status to pending, which is
\* persisted, and does not end the loop: when the loop ends, every plan was
\* attempted or was already done.
C4_FailureIsolated ==
    InRun =>
      /\ \A j \in failed :
           /\ plans[j].status = "pending"
           /\ (j # idx \/ pc # "save_result") => PersistedStatus(PlanKey(j)) = "pending"
      /\ pc \in {"loop", "finished"} =>
           \A j \in DOMAIN plans :
              j < idx => (j \in attempted \/ plans[j].status = "done")
      /\ pc = "finished" =>
           \A j \in DOMAIN plans : j \in attempted \/ plans[j].status = "done"

C4_Witness ==
    /\ pc = "finished"
    /\ 1 \in failed
    /\ 2 \in attempted

\* C5: in every snapshot written by save_state, a record with status done has a
\* non-empty target_owner and a non-empty target_name.
C5_DoneHasTarget ==
    written =>
      \A k \in DOMAIN load_state(file) :
         load_state(file)[k].status = "done" =>
            /\ Truthy(load_state(file)[k].target_owner)
            /\ Truthy(load_state(file)[k].target_name)

\* a record loaded as done without usable target fields was written back
C5_Witness ==
    /\ written
    /\ pc = "create"
    /\ idx = 2
    /\ 1 \notin attempted
    /\ PersistedStatus(PlanKey(1)) = "done"
    /\ plans[1].target_owner \in DefaultOwners

\* C6: apply_existing_state: a plan whose key is in the loaded ledger takes the
\* ledger's status; it takes the ledger's target_owner and target_name when both
\* are non-empty (over defaults and operator edits) and keeps both of its own
\* otherwise; a plan whose key is not in the ledger is unchanged.
C6_MergePrecedence ==
    pc = "recap" =>
      \A i \in DOMAIN plans :
         LET state == load_state(file)
             key == source_key(premerge[i].source)
         IN IF key \in DOMAIN state
            THEN /\ plans[i].source = premerge[i].source
                 /\ plans[i].status = state[key].status
                 /\ IF state[key].target_owner # << >> /\ state[key].target_name # << >>
                    THEN /\ plans[i].target_owner = state[key].target_owner
                         /\ plans[i].target_name = state[key].target_name
                    ELSE /\ plans[i].target_owner = premerge[i].target_owner
                         /\ plans[i].target_name = premerge[i].target_name
            ELSE plans[i] = premerge[i]

\* an operator edit is overridden by the ledger's record
C6_Witness ==
    /\ pc = "recap"
    /\ \E i \in DOMAIN plans :
         /\ premerge[i].target_owner \in EditOwners
         /\ plans[i].target_owner = <<"p">>
         /\ plans[i].status = "in_progress"

----------------------------------------------------------------------------
(* Properties of the origin update, checked under SpecUpd *)

\* the updates apply_updates has gone through without an error
Processed == IF upc \in {"applying", "applied", "failed"} THEN 1..(uidx - 1) ELSE {}

Ran(cmd) == \E n \in DOMAIN gitlog : gitlog[n] = cmd

IsConflict(u) == u.pushurl_conflict

\* C7: loading the ledger never fails: a missing, unreadable or ill-formed state
\* file gives the empty mapping and no error stops the run, in the migrator and
\* in the standalone origin updater.
C7_LoadNeverFails ==
    /\ upc # "load_error"
    /\ (upc = "loaded" /\ file.kind # "dict") => ustate = NoData

\* C8: in build_updates, with origin A: a push URL B # A gives
\* pushurl_conflict and not update_pushurl; a push URL that is absent or equal
\* to A gives update_pushurl and not pushurl_conflict; never both flags.
C8_PushUrlFlags ==
    \A i \in DOMAIN updates :
       LET u == updates[i]
           A == u.current_origin
           B == u.current_pushurl
       IN /\ (B # None /\ B # A) => (u.pushurl_conflict /\ ~u.update_pushurl)
          /\ (B = None \/ B = A) => (u.update_pushurl /\ ~u.pushurl_conflict)
          /\ ~(u.update_pushurl /\ u.pushurl_conflict)

\* C9: for every update apply_updates has processed, the origin fetch URL is
\* new_origin; the push URL was set to new_origin if and only if update_pushurl;
\* with pushurl_conflict the push URL is what it was before; and the conflicts
\* collected are the processed updates with pushurl_conflict, in plan order.
C9_ApplyKeepsDivergingPushUrl ==
    /\ \A i \in Processed :
          LET u == updates[i] IN
          /\ Ran([path |-> u.path, push |-> FALSE, url |-> u.new_origin])
          /\ repos[u.path].url = u.new_origin
          /\ u.update_pushurl <=>
               Ran([path |-> u.path, push |-> TRUE, url |-> u.new_origin])
          /\ repos[u.path].pushurl =
               IF u.update_pushurl THEN u.new_origin ELSE planned[u.path].pushurl
          /\ u.pushurl_conflict =>
               GetPushUrl(repos[u.path]) = GetPushUrl(planned[u.path])
    /\ upc \in {"applying", "applied", "failed"} =>
          conflicts = SelectSeq(SubSeq(updates, 1, uidx - 1), IsConflict)
    /\ upc = "applied" => conflicts = SelectSeq(updates, IsConflict)

C9_Witness ==
    /\ upc = "applied"
    /\ conflicts # << >>
    /\ \E i \in DOMAIN updates : updates[i].update_pushurl

\* C10: in build_updates, for an origin that parses to (workspace, slug):
\* from_state holds exactly when the ledger has a record for "workspace/slug";
\* target_owner is the record's when that is non-empty, else default_owner;
\* target_name is the record's when that is non-empty, else slug; new_origin is
\* "git@github.com:<target_owner>/<target_name>.git" for HTTPS and SSH origins.
C10_TargetResolution ==
    \A i \in DOMAIN updates :
       LET u == updates[i]
           parsed == parse_bitbucket_origin(u.current_origin)
           key == parsed.workspace \o <<"/">> \o parsed.repo
           has == key \in DOMAIN ustate
       IN /\ parsed.matched
          /\ u.from_state <=> has
          /\ u.target_owner = IF has /\ ustate[key].target_owner # << >>
                              THEN ustate[key].target_owner ELSE uowner
          /\ u.target_name = IF has /\ ustate[key].target_name # << >>
                             THEN ustate[key].target_name ELSE parsed.repo
          /\ u.new_origin = <<"g", "i", "t", "@", "g", "i", "t", "h", "u", "b",
                              ".", "c", "o", "m", ":">>
                            \o u.target_owner \o <<"/">> \o u.target_name
                            \o <<".", "g", "i", "t">>

\* an HTTPS origin resolved from a record with an owner and no name, beside an
\* SSH origin with no record
C10_Witness ==
    /\ upc = "planned"
    /\ \E i, j \in DOMAIN updates :
         /\ StartsWith(updates[i].current_origin, HttpsScheme)
         /\ updates[i].from_state
         /\ updates[i].target_owner = <<"p">>
         /\ updates[i].target_name = <<"a">>
         /\ StartsWith(updates[j].current_origin, SshBitbucket)
         /\ ~updates[j].from_state
         /\ updates[j].target_owner = uowner

\* the positions of main() from the merge of the ledger to the end of the loop
AfterMerge == {"recap", "loop", "save_in_progress", "create", "info", "ask",
               "mirror", "except", "save_result", "finished"}

\* C14: when a run is interrupted while a repository is being created or
\* mirrored, the persisted record of the repository is in_progress, and never
\* done before a run takes it up; a later run that selects it does not skip
\* it: it sets it to in_progress again and, when its loop ends, has it at
\* done or pending.
C14_InterruptedResumes ==
    \A e \in interrupted :
       /\ e[3] = 0 =>
            /\ PersistedStatus(e[1]) # "done"
            /\ (e[2] = runs /\ pc = "idle") => PersistedStatus(e[1]) = "in_progress"
            /\ pc \in AfterMerge =>
                 \A i \in DOMAIN plans :
                    PlanKey(i) = e[1] => (i >= idx /\ plans[i].status # "done")
       /\ (e[3] = runs /\ InRun) =>
            \E i \in attempted :
               /\ PlanKey(i) = e[1]
               /\ pc = "finished" => plans[i].status \in {"done", "pending"}

\* the second run has ended its loop with a repository done that the first run
\* was interrupted on, and with another one it did not attempt
C14_Witness ==
    /\ pc = "finished"
    /\ runs = 2
    /\ Len(plans) = 2
    /\ \E e \in interrupted : \E i \in attempted :
          /\ e[3] = runs
          /\ PlanKey(i) = e[1]
          /\ plans[i].status = "done"

\* the plan under way has been handed to mirror_repo
MirrorInvoked == PlanKey(idx) \in mirrored

\* C16: a destination that exists and is reported not empty is mirrored to
\* only after the operator confirmed; when the operator declines, mirror_repo
\* is not invoked for the repository, its status is set to pending and
\* persisted, and the loop goes on with the next repository.
C16_NoPushWithoutConfirmation ==
    InRun =>
      /\ pc = "mirror" => dest \in {"created", "empty", "confirmed"}
      /\ (pc \in {"except", "save_result"} /\ MirrorInvoked) =>
             dest \in {"created", "empty", "confirmed"}
      /\ pc = "ask" => (dest = "nonempty" /\ ~MirrorInvoked)
      /\ \A i \in declined :
            /\ PlanKey(i) \notin mirrored
            /\ plans[i].status = "pending"
            /\ i \notin failed
            /\ IF i = idx
               THEN pc = "save_result" /\ dest = "declined"
               ELSE /\ i < idx
                    /\ PersistedStatus(PlanKey(i)) = "pending"
      /\ pc = "finished" =>
            \A j \in DOMAIN plans : j \in attempted \/ plans[j].status = "done"

\* the operator declined for the first repository, the loop went on,
\* mirrored the second one and ended
C16_Witness ==
    /\ pc = "finished"
    /\ 1 \in declined
    /\ 2 \in attempted
    /\ PlanKey(2) \in mirrored
    /\ PlanKey(1) \notin mirrored
    /\ PersistedStatus(PlanKey(1)) = "pending"

\* the statuses save_state writes
Statuses == {"pending", "in_progress", "done"}

\* a ledger file as save_state writes it: a JSON object whose values are
\* objects with a status and a non-empty target_owner and target_name
WellFormed(f) ==
    /\ f.kind = "dict"
    /\ \A k \in DOMAIN f.data :
          /\ f.data[k].isdict
          /\ DOMAIN f.data[k].fields = {"status", "target_owner", "target_name"}
          /\ f.data[k].fields["status"] \in Statuses
          /\ Truthy(f.data[k].fields["target_owner"])
          /\ Truthy(f.data[k].fields["target_name"])

\* C15: ledger round trip: when a well-formed ledger is loaded and merged onto
\* the plans of a run that selects only repositories of the ledger, and is
\* saved again before any status has changed, the ledger written has the same
\* keys and the same status, target_owner and target_name for every key.
C15_LedgerRoundTrip ==
    [][ ( /\ pc = "save_in_progress"
          /\ pc' = "create"
          /\ attempted = {idx}
          /\ WellFormed(file)
          /\ \A i \in DOMAIN plans : PlanKey(i) \in DOMAIN load_state(file)
          /\ plans = apply_existing_state(premerge, load_state(file)) )
        => load_state(file') = load_state(file) ]_vars

\* C19: a run that ends in its setup, as a dry run or on the operator's no to
\* "Proceed with mirroring?", and a run in which every selected repository is
\* already done, never write the ledger: a run that ends in its setup, and
\* every step of a run that has set no plan to in_progress, leave the state
\* file as it is.
C19_NoAttemptNoWrite ==
    [][ (attempted' = {} \/ (pc = "idle" /\ pc' = "idle"))
        => (file' = file /\ written' = written) ]_vars

\* a second run has gone through its whole loop skipping two repositories
\* that the first run migrated, and the file is what the first run left
C19_Witness ==
    /\ pc = "finished"
    /\ runs = 2
    /\ attempted = {}
    /\ written
    /\ Len(plans) = 2
    /\ file = save_state(plans)

\* C20: when the loop has run to its end, every plan is pending or done, and
\* if a plan was attempted the persisted ledger holds exactly the plans:
\* one record per plan, with the status, target_owner and target_name the
\* plan has in memory.
C20_LedgerMatchesPlansAtEnd ==
    pc = "finished" =>
      /\ \A i \in DOMAIN plans : plans[i].status \in {"pending", "done"}
      /\ attempted # {} =>
           /\ DOMAIN load_state(file) = {PlanKey(i) : i \in DOMAIN plans}
           /\ \A i \in DOMAIN plans :
                 /\ load_state(file)[PlanKey(i)].status = plans[i].status
                 /\ load_state(file)[PlanKey(i)].target_owner = plans[i].target_owner
                 /\ load_state(file)[PlanKey(i)].target_name = plans[i].target_name

\* the loop ended with one repository skipped as done, with the targets the
\* ledger held for it, and the other one attempted and back at pending
C20_Witness ==
    /\ pc = "finished"
    /\ Len(plans) = 2
    /\ 1 \notin attempted
    /\ plans[1].target_owner = <<"p">>
    /\ 2 \in failed
    /\ plans[2].status = "pending"

----------------------------------------------------------------------------
(* Properties of repeated origin updates, checked under SpecUpd *)

\* the pass before this one ran apply_updates to its end
FirstPassApplied == upass >= 2 /\ first.upc = "applied"

\* the pass before this one stopped on a failing set-url command
FirstPassFailed == upass >= 2 /\ first.upc = "failed"

\* C11: once a plan-and-apply pass has completed, a further pass over the same
\* repositories leaves the fetch URL and the push URL of origin of every
\* repository as the first pass left them.
C11_SecondPassChangesNothing ==
    FirstPassApplied =>
        \A p \in PathSet :
            /\ GetUrl(repos[p]) = GetUrl(first.repos[p])
            /\ GetPushUrl(repos[p]) = GetPushUrl(first.repos[p])

\* a second pass has planned again after a first pass that rewrote a
\* repository and left the diverging push URL of another one in place
C11_Witness ==
    /\ FirstPassApplied
    /\ upc = "nothing"
    /\ first.conflicts # << >>
    /\ \E p \in PathSet : GetUrl(first.repos[p]) # GetUrl(first.planned[p])

\* C12: a failing set-url command ends apply_updates with the error; the
\* updates after the failing one are not applied and the rewrites before it
\* stay; planning and applying again from the beginning, once it completes,
\* has every repository planned in the failed pass at its new_origin: the
\* fetch URL, and the push URL too where the plan said update_pushurl.
C12_FailFastAndRerun ==
    /\ seterr => upc = "failed"
    /\ upc = "failed" =>
          \A j \in DOMAIN updates :
              /\ j > uidx => repos[updates[j].path] = planned[updates[j].path]
              /\ j < uidx => GetUrl(repos[updates[j].path]) = updates[j].new_origin
    /\ (FirstPassFailed /\ upc \in {"applied", "nothing"}) =>
          \A j \in DOMAIN first.updates :
              LET u == first.updates[j] IN
              /\ GetUrl(repos[u.path]) = u.new_origin
              /\ u.update_pushurl => GetPushUrl(repos[u.path]) = u.new_origin

\* the set-url commands of a whole call of apply_updates on us, in order, as
\* update-git-origins.py (standalone) or origin_updater.py runs them
RECURSIVE CommandLog(_, _)
CommandLog(us, standalone) ==
    IF us = << >>
    THEN << >>
    ELSE (IF standalone THEN CommandsOfStandalone(Head(us)) ELSE CommandsOf(Head(us)))
         \o CommandLog(Tail(us), standalone)

\* build_updates has returned in the pass under way
Built == upc \in {"nothing", "planned", "declined", "applying", "applied", "failed"}

\* C18: on the same repositories, git answers, ledger and default owner the
\* build_updates of origin_updater.py and that of update-git-origins.py
\* return the same list of updates, and the two apply_updates run the same
\* set-url commands in the same order, leave the same configuration and
\* return the same conflicts.
C18_SameUpdatesBothPrograms ==
    /\ Built =>
         /\ updates = build_updates(repo_paths, ustate, uowner, answers)
         /\ updates = build_updates_standalone(repo_paths, ustate, uowner, answers)
    /\ \A i \in Processed :
         /\ repos[updates[i].path] = ApplyOne(planned[updates[i].path], updates[i])
         /\ repos[updates[i].path] =
               ApplyOneStandalone(planned[updates[i].path], updates[i])
    /\ upc \in {"applying", "applied"} =>
         LET applied == SubSeq(updates, 1, uidx - 1) IN
         /\ gitlog = CommandLog(applied, FALSE)
         /\ gitlog = CommandLog(applied, TRUE)
         /\ conflicts = SelectSeq(applied, IsConflict)

\* update-git-origins.py has applied two updates, the first one taken from
\* the ledger and with its push URL rewritten, the second one a conflict
C18_Witness ==
    /\ uprog = "standalone"
    /\ upc = "applied"
    /\ Len(updates) = 2
    /\ updates[1].from_state
    /\ updates[1].update_pushurl
    /\ conflicts = <<updates[2]>>

----------------------------------------------------------------------------
(* Properties of parse_bitbucket_origin, checked under SpecParse *)

\* parse_bitbucket_origin returns (workspace, repo)
Parsed(workspace, repo) == [matched |-> TRUE, workspace |-> workspace, repo |-> repo]

\* C17: for a URL https://[credentials@]bitbucket.org/<workspace>/<slug>[.git]
\* or git@bitbucket.org:<workspace>/<slug>[.git] parse_bitbucket_origin
\* returns (workspace, slug), without the credentials and without the .git
\* suffix; for every other URL it returns None.
C17_ParsesBitbucketForms ==
    presult.called =>
      /\ \A x \in BitbucketPrefixes : \A w \in TestWorkspaces :
            /\ \A r \in TestSlugs :
                  purl = BareUrl(x, w, r) => presult.value = Parsed(w, r)
            /\ \A r \in TestSlugs \cup {SlugDotGit} :
                  purl = SuffixedUrl(x, w, r) => presult.value = Parsed(w, r)
      /\ purl \in OtherUrls => presult.value = NoMatch

\* a URL with credentials and the suffix has been parsed, its slug ending in
\* ".git" itself
C17_Witness ==
    /\ presult = [called |-> TRUE, value |-> Parsed(<<"t", "1">>, SlugDotGit)]
    /\ \E c \in TestCredentials :
          purl = SuffixedUrl(HttpsScheme \o c \o <<"@">> \o BitbucketHost \o Slash,
                             <<"t", "1">>, SlugDotGit)

----------------------------------------------------------------------------
(* Properties of run_git_with_retry and mirror_repo, checked under SpecMirror *)

\* the commands mirror_repo hands to run_git_with_retry
Retried == {"cmd", "clone", "push"}

\* the call of run_git_with_retry for command c is over
RetryOver(c) ==
    /\ calls[c] > 0
    /\ ~(command = c /\ mpc \in {"try", "sleep"})

\* C13: run_git_with_retry invokes git at least once and at most retries
\* times, stops at the first success, returns normally only after a success,
\* sleeps between attempts but not after the last one, and raises the error
\* of the last invocation when none succeeded.  mirror_repo retries only
\* clone and push, three times at most each, runs set-url and the LFS steps
\* once, and an error that leaves it sets the status to "pending".
C13_BoundedRetry ==
    /\ \A c \in Retried :
         /\ calls[c] <= (IF c = "cmd" THEN retries ELSE MirrorRetries)
         /\ (command = c /\ mpc = "try") =>
               /\ c \notin succeeded
               /\ sleeps[c] = calls[c]
         /\ (command = c /\ mpc = "sleep") => sleeps[c] = calls[c] - 1
         /\ RetryOver(c) =>
               /\ sleeps[c] = calls[c] - 1
               /\ c \in returned <=> c \in succeeded
               /\ c \notin succeeded => raised = calls[c]
               /\ (c \notin succeeded /\ last_error = raised) =>
                     calls[c] = (IF c = "cmd" THEN retries ELSE MirrorRetries)
    /\ \A c \in Commands \ Retried : calls[c] <= 1 /\ sleeps[c] = 0
    /\ mpc = "ended" =>
         /\ raised # 0 <=> mstatus = "pending"
         /\ raised = 0 <=> mstatus = "done"

\* mirror_repo was left by the error of the third failing push, after a
\* clone that needed a second attempt and both LFS steps
C13_Witness ==
    /\ mpc = "ended"
    /\ mstatus = "pending"
    /\ lfs_migrate
    /\ calls["clone"] = 2
    /\ calls["push"] = MirrorRetries
    /\ sleeps["push"] = MirrorRetries - 1
    /\ last_error = MirrorRetries

====
